---- MODULE Spec2Model ----
(***************************************************************************)
(* Nearby Connect (Rado): the radar discovery screen (RadarScreen,         *)
(* frontend/app/map.tsx) and the message compose screen                    *)
(* (SendMessageScreen, frontend/app/messages/send.tsx) as one state        *)
(* machine.  React state hooks are the variables; every event handler,     *)
(* every continuation after an await and every response arrival is one     *)
(* action.  The useEffect hooks that a handler's state change triggers     *)
(* run inside the same action: React flushes them before the next event.   *)
(* Radii and distances are in tenths of a mile.                            *)
(***************************************************************************)
EXTENDS Integers, Sequences, FiniteSets

\* ------------------------------------------------------------------ bounds
\* Most nearby-user searches in flight at once.
MaxSearch == 2
\* Most location pushes in flight at once.
MaxPush == 1
\* Most initializeScreen calls in flight at once.
MaxInit == 1
\* Most POST /api/messages in flight at once.
MaxPost == 1
\* Most requests of the account screens in flight at once.
MaxCall == 1

\* ------------------------------------------------------------------ values
\* null, for a string and for an object.
Null == "null"

Nil == [nil |-> TRUE]

\* The values the radius slider is moved to: 0.5, 1.0 and 2.0 miles.
SliderValues == {5, 10, 20}

\* useState(1.0)
InitialRadius == 10

\* The Slider's minimumValue={0.5}, in tenths of a mile.
MinimumValue == 5

\* The Slider's maximumValue={5.0}, in tenths of a mile.
MaximumValue == 50

\* The Slider's step={0.1}, in tenths of a mile.
Step == 1

\* Where the thumb is dragged to, in hundredths of a mile: left of the
\* track, 1.04, 2.0, right of the track.
ThumbPositions == {20, 104, 200, 530}

\* A Slider that snaps to its step and ignores its limits.
SliderValueUnclamped(raw) == (((raw + 5) \div 10) \div Step) * Step

\* The value the Slider reports for a thumb position: the nearest step
\* inside minimumValue .. maximumValue.
SliderValue(raw) ==
    LET snapped == (((raw + 5) \div 10) \div Step) * Step
    IN  IF snapped < MinimumValue THEN MinimumValue
        ELSE IF snapped > MaximumValue THEN MaximumValue
        ELSE snapped

\* The state setter of useState(1.0): the next radius is the value given.
setRadius(value) == value

\* radarCenter - 60: the pixels between the radar's centre and its rim.
AvailablePixels == 100

\* Math.random() * 45, as whole degrees.
Jitters == {0, 44}

\* What the message input may hold.
Texts == {"", " ", "hi"}

\* The users the backend knows, with their distance from the device.
BackendUsers ==
    << [id |-> "u1", name |-> "Ann", distance_miles |-> 8],
       [id |-> "u2", name |-> "Bob", distance_miles |-> 15] >>

\* What a name field may hold: nothing, the name the account was made with,
\* another name.
FormValues == {"", "Ann", "Bea"}

\* The emails a signup may carry.
Emails == FormValues \ {""}

\* The screens that load with the stored token: /profile/settings,
\* /profile/preferences, /notifications.
AuthPages == {"settings", "preferences", "notifications"}

\* Platform.OS === 'web': the fixed coordinate 37.7749, -122.4194.
FallbackCoordinate == [latitude |-> 377749, longitude |-> -1224194]

\* A coordinate Location.getCurrentPositionAsync may report.
GpsCoordinate == [latitude |-> 404000, longitude |-> -740000]

\* ------------------------------------------------------------------ state
VARIABLES
    platform,      \* Platform.OS: "web" or "mobile"
    storedToken,   \* AsyncStorage 'authToken'
    screen,        \* the route on top of the navigation stack
    alerts,        \* the Alert dialogs on display
    location,      \* RadarScreen state
    nearbyUsers,
    userBlips,
    selectedUser,
    loading,
    radius,
    authToken,
    updating,
    inits,         \* initializeScreen calls in flight, by the await they are at
    searches,      \* POST /api/users/nearby in flight, in the order issued
    pushes,        \* POST /api/location in flight
    latestOk,      \* history: radius of the newest request answered with 2xx
    handedOff,     \* history: the list handleSendMessage handed off
    users,         \* SendMessageScreen state
    message,
    imageUri,
    imageBase64,
    composeLoading,
    posts,         \* POST /api/messages in flight
    storedUser,    \* AsyncStorage 'userData': the name in the profile snapshot
    form,          \* the input of the login, signup, verify or settings screen
    busy,          \* that screen's loading, or saving, flag
    pageLoading,   \* the loading flag of settings, preferences, notifications
    calls,         \* the requests of those screens in flight
    registered     \* the backend's accounts: how many each email has

radarVars ==
    << location, nearbyUsers, userBlips, selectedUser, loading, radius,
       authToken, updating >>

netVars == << inits, searches, pushes, latestOk >>

composeVars ==
    << handedOff, users, message, imageUri, imageBase64,
       composeLoading, posts >>

accountVars == << storedUser, form, busy, pageLoading, calls, registered >>

vars ==
    << platform, storedToken, screen, alerts, radarVars, netVars, composeVars,
       accountVars >>

\* ------------------------------------------------------------------ helpers
Min(a, b) == IF a <= b THEN a ELSE b

Indices(s) == 1 .. Len(s)

\* s without its i-th element.
RemoveAt(s, i) == [j \in 1 .. (Len(s) - 1) |-> IF j < i THEN s[j] ELSE s[j + 1]]

\* The backend's answer to a search of the given radius.
NearbyResult(r) == SelectSeq(BackendUsers, LAMBDA u : u.distance_miles <= r)

\* A fresh UserLocation object: ref tells it from the object it replaces,
\* as React's Object.is comparison of the effect's dependencies does.
NewLocation(c) ==
    [latitude |-> c.latitude, longitude |-> c.longitude,
     ref |-> IF location = Nil THEN 0 ELSE 1 - location.ref]

\* The RadarScreen is mounted below the screens it pushes as well.
RadarMounted == screen \in {"radar", "compose"} \cup AuthPages

\* The radar's controls are rendered and no Alert dialog covers them.
RadarInteractive ==
    screen = "radar" /\ alerts = {} /\ ~loading /\ location # Nil

\* ------------------------------------------------------------------ radar
\* A layout effect that leaves out the users beyond the scan radius.
LayoutWithinRadius(list, r, jitter) ==
    LET near == SelectSeq(list, LAMBDA u : u.distance_miles <= r)
    IN  [i \in Indices(near) |->
            [id |-> near[i].id,
             name |-> near[i].name,
             distance_miles |-> near[i].distance_miles,
             angle |-> ((i - 1) * 72 + jitter[i]) % 360,
             radius |-> Min((near[i].distance_miles * AvailablePixels) \div r,
                            AvailablePixels),
             selected |-> FALSE]]

\* The layout effect: nearbyUsers.map((user, index) => blip).
Layout(list, r, jitter) ==
    [i \in Indices(list) |->
        [id |-> list[i].id,
         name |-> list[i].name,
         distance_miles |-> list[i].distance_miles,
         angle |-> ((i - 1) * 72 + jitter[i]) % 360,
         radius |-> Min((list[i].distance_miles * AvailablePixels) \div r,
                        AvailablePixels),
         selected |-> FALSE]]

\* The body of POST /api/users/nearby; superseded is history: an answer to
\* a request issued later has been processed.
SearchRequest(loc, r) ==
    [latitude |-> loc.latitude, longitude |-> loc.longitude,
     radius_miles |-> r, superseded |-> FALSE]

\* An effect whose dependency list lacks radius.
EffectFiresWithoutRadius(newLoc, newRad, newTok) ==
    /\ newLoc # location \/ newTok # authToken
    /\ newLoc # Nil
    /\ newTok # Null

\* useEffect(..., [location, radius, authToken]): runs when a dependency
\* changed, and acts when location and token are both present.
EffectFires(newLoc, newRad, newTok) ==
    /\ newLoc # location \/ newRad # radius \/ newTok # authToken
    /\ newLoc # Nil
    /\ newTok # Null

\* A render that commits new values of location, radius, authToken and
\* loading, with the two effects that depend on them.
Commit(newLoc, newRad, newTok, newLoading) ==
    /\ location' = newLoc
    /\ radius' = newRad
    /\ authToken' = newTok
    /\ loading' = newLoading
    /\ IF EffectFires(newLoc, newRad, newTok)
       THEN /\ pushes < MaxPush
            /\ Len(searches) < MaxSearch
            /\ pushes' = pushes + 1
            /\ searches' = Append(searches, SearchRequest(newLoc, newRad))
            /\ updating' = TRUE
       ELSE UNCHANGED << pushes, searches, updating >>
    /\ IF newRad # radius
       THEN \E jitter \in [Indices(nearbyUsers) -> Jitters] :
                userBlips' = Layout(nearbyUsers, newRad, jitter)
       ELSE UNCHANGED userBlips
    /\ UNCHANGED << nearbyUsers, selectedUser, latestOk >>

\* An initializeScreen that goes on without having tested the token.
InitReadTokenUnchecked ==
    /\ RadarMounted
    /\ inits.token > 0
    /\ IF platform = "web"
       THEN /\ Commit(NewLocation(FallbackCoordinate), radius, storedToken, FALSE)
            /\ inits' = [inits EXCEPT !.token = @ - 1]
       ELSE /\ Commit(location, radius, storedToken, loading)
            /\ inits' = [inits EXCEPT !.token = @ - 1, !.permission = @ + 1]
    /\ UNCHANGED << accountVars, platform, storedToken, screen, alerts, composeVars >>

\* initializeScreen up to the answer of AsyncStorage.getItem('authToken').
InitReadToken ==
    /\ RadarMounted
    /\ inits.token > 0
    /\ IF storedToken = Null
       THEN /\ alerts' = alerts \cup {"Please login first"}
            /\ loading' = FALSE
            /\ inits' = [inits EXCEPT !.token = @ - 1]
            /\ UNCHANGED << location, radius, authToken, pushes, searches,
                            updating, userBlips, nearbyUsers, selectedUser,
                            latestOk >>
       ELSE IF platform = "web"
       THEN /\ Commit(NewLocation(FallbackCoordinate), radius, storedToken, FALSE)
            /\ inits' = [inits EXCEPT !.token = @ - 1]
            /\ UNCHANGED alerts
       ELSE /\ Commit(location, radius, storedToken, loading)
            /\ inits' = [inits EXCEPT !.token = @ - 1, !.permission = @ + 1]
            /\ UNCHANGED alerts
    /\ UNCHANGED << accountVars, platform, storedToken, screen, composeVars >>

\* initializeScreen of the MapView variant of the screen, up to the answer
\* of AsyncStorage.getItem: it has no branch for Platform.OS === 'web' and
\* goes on to request the location permission on every platform.
MapInitReadToken ==
    /\ RadarMounted
    /\ inits.token > 0
    /\ IF storedToken = Null
       THEN /\ alerts' = alerts \cup {"Please login first"}
            /\ loading' = FALSE
            /\ inits' = [inits EXCEPT !.token = @ - 1]
            /\ UNCHANGED << location, radius, authToken, pushes, searches,
                            updating, userBlips, nearbyUsers, selectedUser,
                            latestOk >>
       ELSE /\ Commit(location, radius, storedToken, loading)
            /\ inits' = [inits EXCEPT !.token = @ - 1, !.permission = @ + 1]
            /\ UNCHANGED alerts
    /\ UNCHANGED << accountVars, platform, storedToken, screen, composeVars >>

\* An initializeScreen that falls back to the fixed coordinate when the
\* permission is refused.
InitPermissionFallsBack(status) ==
    /\ RadarMounted
    /\ inits.permission > 0
    /\ IF status = "granted"
       THEN /\ inits' = [inits EXCEPT !.permission = @ - 1, !.position = @ + 1]
            /\ UNCHANGED << alerts, loading, location, radius, authToken,
                            pushes, searches, updating, userBlips,
                            nearbyUsers, selectedUser, latestOk >>
       ELSE /\ inits' = [inits EXCEPT !.permission = @ - 1]
            /\ Commit(NewLocation(FallbackCoordinate), radius, authToken, FALSE)
            /\ UNCHANGED alerts
    /\ UNCHANGED << accountVars, platform, storedToken, screen, composeVars >>

\* initializeScreen at the answer of requestForegroundPermissionsAsync.
InitPermission(status) ==
    /\ RadarMounted
    /\ inits.permission > 0
    /\ IF status = "granted"
       THEN /\ inits' = [inits EXCEPT !.permission = @ - 1, !.position = @ + 1]
            /\ UNCHANGED << alerts, loading >>
       ELSE /\ inits' = [inits EXCEPT !.permission = @ - 1]
            /\ alerts' = alerts \cup {"Location permission is required to use this app"}
            /\ loading' = FALSE
    /\ UNCHANGED << location, radius, authToken, pushes, searches, updating,
                    userBlips, nearbyUsers, selectedUser, latestOk >>
    /\ UNCHANGED << accountVars, platform, storedToken, screen, composeVars >>

\* initializeScreen at the answer of getCurrentPositionAsync.
InitPosition(ok) ==
    /\ RadarMounted
    /\ inits.position > 0
    /\ inits' = [inits EXCEPT !.position = @ - 1]
    /\ IF ok
       THEN /\ Commit(NewLocation(GpsCoordinate), radius, authToken, FALSE)
            /\ UNCHANGED alerts
       ELSE /\ alerts' = alerts \cup {"Failed to get your location. Please try again."}
            /\ loading' = FALSE
            /\ UNCHANGED << location, radius, authToken, pushes, searches,
                            updating, userBlips, nearbyUsers, selectedUser,
                            latestOk >>
    /\ UNCHANGED << accountVars, platform, storedToken, screen, composeVars >>

\* The Retry button of the "Location not available" screen.
RetryInit ==
    /\ screen = "radar" /\ alerts = {} /\ ~loading /\ location = Nil
    /\ inits.token + inits.permission + inits.position < MaxInit
    /\ inits' = [inits EXCEPT !.token = @ + 1]
    /\ UNCHANGED << accountVars, platform, storedToken, screen, alerts, radarVars,
                    searches, pushes, latestOk, composeVars >>

\* An updateLocationOnServer that reports a failed push to the user.
PushOutcomeReported(outcome) ==
    /\ pushes > 0
    /\ outcome \in {"ok", "non2xx", "network"}
    /\ pushes' = pushes - 1
    /\ alerts' = IF outcome = "ok" THEN alerts
                 ELSE alerts \cup {"Failed to update location"}
    /\ UNCHANGED << accountVars, platform, storedToken, screen, radarVars,
                    inits, searches, latestOk, composeVars >>

\* updateLocationOnServer after its fetch: the response is not looked at,
\* so 2xx and non-2xx end alike; a network error is caught and logged.
PushOutcome(outcome) ==
    /\ pushes > 0
    /\ outcome \in {"ok", "non2xx", "network"}
    /\ pushes' = pushes - 1
    /\ UNCHANGED << accountVars, platform, storedToken, screen, alerts, radarVars,
                    inits, searches, latestOk, composeVars >>

\* updateLocationOnServer after its fetch: any outcome is at most logged.
PushDone == \E outcome \in {"ok", "non2xx", "network"} : PushOutcome(outcome)

\* handleSliderChange: the Slider reports a new value.
handleSliderChange(value) ==
    /\ RadarInteractive
    /\ value # radius
    /\ Commit(location, setRadius(value), authToken, loading)
    /\ UNCHANGED << accountVars, platform, storedToken, screen, alerts, inits, composeVars >>

\* findNearbyUsers up to its fetch, called by handleRefresh.
findNearbyUsers ==
    /\ location # Nil
    /\ authToken # Null
    /\ Len(searches) < MaxSearch
    /\ updating' = TRUE
    /\ searches' = Append(searches, SearchRequest(location, radius))

\* The refresh button: disabled={updating}, onPress={handleRefresh}.
RefreshDisabled == updating

handleRefresh ==
    /\ RadarInteractive
    /\ ~RefreshDisabled
    /\ findNearbyUsers
    /\ UNCHANGED << location, nearbyUsers, userBlips, selectedUser, loading,
                    radius, authToken, inits, pushes, latestOk >>
    /\ UNCHANGED << accountVars, platform, storedToken, screen, alerts, composeVars >>

\* The requests in flight once the i-th was answered with 2xx: it is gone,
\* and those issued before it are now older than an answered request.
AfterAnswer(i) ==
    RemoveAt([j \in Indices(searches) |->
                 IF j < i THEN [searches[j] EXCEPT !.superseded = TRUE]
                 ELSE searches[j]], i)

\* A response handler that adds the answer to the list it finds.
ReceivedAppended(request, previous) ==
    previous \o NearbyResult(request.radius_miles)

\* What a 2xx response to the request does to nearbyUsers.
Received(request, previous) == NearbyResult(request.radius_miles)

\* findNearbyUsers after its fetch, response.ok: setNearbyUsers, and the
\* layout effect that the new array triggers; finally setUpdating(false).
SearchOk(i) ==
    /\ RadarMounted
    /\ i \in Indices(searches)
    /\ nearbyUsers' = Received(searches[i], nearbyUsers)
    /\ \E jitter \in [Indices(nearbyUsers') -> Jitters] :
           userBlips' = Layout(nearbyUsers', radius, jitter)
    /\ updating' = FALSE
    /\ searches' = AfterAnswer(i)
    /\ latestOk' = IF searches[i].superseded THEN latestOk
                   ELSE searches[i].radius_miles
    /\ UNCHANGED << location, selectedUser, loading, radius, authToken,
                    inits, pushes >>
    /\ UNCHANGED << accountVars, platform, storedToken, screen, alerts, composeVars >>

\* A failure handler that empties the list.
SearchFailedClearsList(i, kind) ==
    /\ RadarMounted
    /\ i \in Indices(searches)
    /\ kind \in {"network", "unparsable", "non2xx", "401"}
    /\ updating' = FALSE
    /\ searches' = RemoveAt(searches, i)
    /\ nearbyUsers' = << >>
    /\ userBlips' = << >>
    /\ UNCHANGED << location, selectedUser, loading, radius, authToken,
                    inits, pushes, latestOk >>
    /\ UNCHANGED << accountVars, platform, storedToken, screen, alerts, composeVars >>

\* findNearbyUsers after its fetch, on a network error, an unparsable body
\* or a non-2xx response, a 401 like any other: console.error only; finally
\* setUpdating(false).
SearchFailed(i, kind) ==
    /\ RadarMounted
    /\ i \in Indices(searches)
    /\ kind \in {"network", "unparsable", "non2xx", "401"}
    /\ updating' = FALSE
    /\ searches' = RemoveAt(searches, i)
    /\ UNCHANGED << location, nearbyUsers, userBlips, selectedUser, loading,
                    radius, authToken, inits, pushes, latestOk >>
    /\ UNCHANGED << accountVars, platform, storedToken, screen, alerts, composeVars >>

\* A selection that marks the pressed blip and leaves the others as they are.
SelectInKeepingOthers(blips, blip) ==
    [k \in Indices(blips) |->
        [blips[k] EXCEPT !.selected = (@ \/ blips[k].id = blip.id)]]

\* prev.map(b => ({ ...b, selected: b.id === blip.id }))
SelectIn(blips, blip) ==
    [k \in Indices(blips) |-> [blips[k] EXCEPT !.selected = (blips[k].id = blip.id)]]

\* A handleUserBlipPress that lays the blips out again before marking.
handleUserBlipPressRelayout(i) ==
    /\ RadarInteractive
    /\ i \in Indices(userBlips)
    /\ selectedUser' = userBlips[i]
    /\ \E jitter \in [Indices(nearbyUsers) -> Jitters] :
           userBlips' = SelectIn(Layout(nearbyUsers, radius, jitter), userBlips[i])
    /\ UNCHANGED << location, nearbyUsers, loading, radius, authToken, updating >>
    /\ UNCHANGED << accountVars, platform, storedToken, screen, alerts, netVars, composeVars >>

\* handleUserBlipPress: the i-th blip on the radar is pressed.
handleUserBlipPress(i) ==
    /\ RadarInteractive
    /\ i \in Indices(userBlips)
    /\ selectedUser' = userBlips[i]
    /\ userBlips' = SelectIn(userBlips, userBlips[i])
    /\ UNCHANGED << location, nearbyUsers, loading, radius, authToken, updating >>
    /\ UNCHANGED << accountVars, platform, storedToken, screen, alerts, netVars, composeVars >>

\* ------------------------------------------------------------------ hand-off
\* JSON.stringify of a list of User records: the text, as its key/value
\* pairs in order.
JSONstringify(list) ==
    [type |-> "string", valid |-> TRUE,
     items |-> [i \in Indices(list) |->
                   << << "id", list[i].id >>,
                      << "name", list[i].name >>,
                      << "distance_miles", list[i].distance_miles >> >>]]

\* JSON.parse of such a text.
JSONparse(text) ==
    [i \in Indices(text.items) |->
        [id |-> text.items[i][1][2],
         name |-> text.items[i][2][2],
         distance_miles |-> text.items[i][3][2]]]

\* Other values useLocalSearchParams may give for nearbyUsers: none, a
\* string[] (the parameter repeated), a string that is no JSON.
MissingParam == [type |-> "undefined", valid |-> FALSE, items |-> << >>]

ArrayParam == [type |-> "object", valid |-> FALSE, items |-> << >>]

GarbageParam == [type |-> "string", valid |-> FALSE, items |-> << >>]

\* SendMessageScreen's effect on [nearbyUsers]: the users state after mount.
ParsedUsers(p) ==
    IF p.type = "string" /\ p.valid THEN JSONparse(p) ELSE << >>

\* /messages/send is put on top of the stack: a new SendMessageScreen.
OpenCompose(p, list) ==
    /\ screen' = "compose"
    /\ handedOff' = list
    /\ users' = ParsedUsers(p)
    /\ message' = ""
    /\ imageUri' = Null
    /\ imageBase64' = Null
    /\ composeLoading' = FALSE
    /\ UNCHANGED posts

\* The send button of the radar: disabled={!selectedUser || nearbyUsers.length === 0}.
SendDisabled == selectedUser = Nil \/ Len(nearbyUsers) = 0

\* The send button's text.
SendButtonText ==
    IF selectedUser # Nil THEN "Send Message"
    ELSE IF Len(nearbyUsers) = 0 THEN "No Users Available"
    ELSE "Select User to Message"

\* What an attempt to compose ends in: the disabled send button reports the
\* reason in its text, the enabled one runs handleSendMessage.
SendOutcome ==
    IF SendDisabled
    THEN CASE SendButtonText = "No Users Available" -> "NoUsersAvailable"
           [] SendButtonText = "Select User to Message" -> "NoSelection"
           [] OTHER -> "Disabled"
    ELSE IF selectedUser = Nil THEN "NoSelection"
    ELSE "HandOff"

\* nearbyUsers.filter(user => user.id === selectedUser.id)
FullUserData(list, selected) == SelectSeq(list, LAMBDA u : u.id = selected.id)

\* handleSendMessage, pressed on the enabled send button.
handleSendMessage ==
    /\ RadarInteractive
    /\ ~SendDisabled
    /\ IF selectedUser = Nil
       THEN /\ alerts' = alerts \cup {"Please select a user from the radar to send a message"}
            /\ UNCHANGED << screen, composeVars >>
       ELSE /\ OpenCompose(JSONstringify(FullUserData(nearbyUsers, selectedUser)),
                           FullUserData(nearbyUsers, selectedUser))
            /\ UNCHANGED alerts
    /\ UNCHANGED << accountVars, platform, storedToken, radarVars, netVars >>

\* /messages/send opened by a link that carries no usable nearbyUsers.
DeepLinkCompose(p) ==
    /\ screen = "radar"
    /\ alerts = {}
    /\ p \in {MissingParam, ArrayParam, GarbageParam}
    /\ OpenCompose(p, << >>)
    /\ UNCHANGED << accountVars, platform, storedToken, alerts, radarVars, netVars >>

\* ------------------------------------------------------------------ compose
\* The compose screen's controls are rendered and no Alert covers them.
ComposeInteractive == screen = "compose" /\ alerts = {}

\* String.prototype.trim
Trim(text) == IF text = " " THEN "" ELSE text

\* An emptiness test that does not trim the text.
IsEmptyUntrimmed(text, base64) == text = "" /\ base64 = Null

\* !message.trim() && !imageBase64
IsEmptyMessage(text, base64) == Trim(text) = "" /\ base64 = Null

\* A sendMessage without the test of users.length.
NeverNoRecipients(list) == FALSE

\* users.length === 0
HasNoRecipients(list) == Len(list) = 0

\* users.map(user => user.id)
RecipientIds(list) == [i \in Indices(list) |-> list[i].id]

\* The requests of a SendMessageScreen that is unmounted: their setLoading
\* no longer reaches a screen.
Orphaned(requests) ==
    [k \in Indices(requests) |-> [requests[k] EXCEPT !.orphan = TRUE]]

\* onChangeText={setMessage}
setMessage(text) ==
    /\ ComposeInteractive
    /\ text \in Texts
    /\ text # message
    /\ message' = text
    /\ UNCHANGED << handedOff, users, imageUri, imageBase64,
                    composeLoading, posts >>
    /\ UNCHANGED << accountVars, platform, storedToken, screen, alerts, radarVars, netVars >>

\* showImagePicker, then takePhoto or pickImage to its end.
attachPhoto(outcome) ==
    /\ ComposeInteractive
    /\ imageUri = Null
    /\ outcome \in {"denied", "base64", "uriOnly"}
    /\ IF outcome = "denied"
       THEN /\ alerts' = alerts \cup {"Permission Required"}
            /\ UNCHANGED << imageUri, imageBase64 >>
       ELSE /\ imageUri' = "uri"
            /\ imageBase64' = IF outcome = "base64" THEN "b64" ELSE Null
            /\ UNCHANGED alerts
    /\ UNCHANGED << handedOff, users, message, composeLoading, posts >>
    /\ UNCHANGED << accountVars, platform, storedToken, screen, radarVars, netVars >>

removeImage ==
    /\ ComposeInteractive
    /\ imageUri # Null
    /\ imageUri' = Null
    /\ imageBase64' = Null
    /\ UNCHANGED << handedOff, users, message, composeLoading, posts >>
    /\ UNCHANGED << accountVars, platform, storedToken, screen, alerts, radarVars, netVars >>

\* A request whose recipients are resolved again from the radar screen's
\* list and selection when the message is sent.
MessageRequestResolvedLate(text, list, base64) ==
    [content |-> Trim(text),
     recipient_ids |-> RecipientIds(FullUserData(nearbyUsers, selectedUser)),
     image_data |-> base64, handedOff |-> handedOff, orphan |-> FALSE]

\* The body of POST /api/messages, with the list that was handed off to the
\* screen that sends it (history).
MessageRequest(text, list, base64) ==
    [content |-> Trim(text), recipient_ids |-> RecipientIds(list),
     image_data |-> base64, handedOff |-> handedOff, orphan |-> FALSE]

\* The radar screen, unmounted: its state is gone and what is still in
\* flight for it can no longer reach it.
RadarUnmounted ==
    /\ location' = Nil
    /\ nearbyUsers' = << >>
    /\ userBlips' = << >>
    /\ selectedUser' = Nil
    /\ loading' = TRUE
    /\ radius' = InitialRadius
    /\ authToken' = Null
    /\ updating' = FALSE
    /\ inits' = [token |-> 0, permission |-> 0, position |-> 0]
    /\ searches' = << >>
    /\ pushes' = 0
    /\ latestOk' = 0

\* The compose screen, unmounted: its state is gone.
ComposeUnmounted ==
    /\ handedOff' = << >>
    /\ users' = << >>
    /\ message' = ""
    /\ imageUri' = Null
    /\ imageBase64' = Null
    /\ composeLoading' = FALSE
    /\ posts' = Orphaned(posts)

\* A sendMessage behind a send button that is never disabled.
sendMessageWhileLoading ==
    /\ ComposeInteractive
    /\ IF IsEmptyMessage(message, imageBase64)
       THEN /\ alerts' = alerts \cup {"Please enter a message or add a photo"}
            /\ UNCHANGED << screen, radarVars, netVars, composeVars >>
       ELSE IF HasNoRecipients(users)
       THEN /\ alerts' = alerts \cup {"No users found to send message to"}
            /\ UNCHANGED << screen, radarVars, netVars, composeVars >>
       ELSE IF storedToken = Null
       THEN /\ alerts' = alerts \cup {"Authentication required"}
            /\ screen' = "login"
            /\ RadarUnmounted
            /\ ComposeUnmounted
       ELSE /\ Len(posts) < MaxPost
            /\ posts' = Append(posts, MessageRequest(message, users, imageBase64))
            /\ composeLoading' = TRUE
            /\ UNCHANGED << screen, alerts, radarVars, netVars >>
            /\ UNCHANGED << handedOff, users, message, imageUri, imageBase64 >>
    /\ UNCHANGED << accountVars, platform, storedToken >>

\* sendMessage up to its fetch; the send button is disabled={loading}.
sendMessage ==
    /\ ComposeInteractive
    /\ ~composeLoading
    /\ IF IsEmptyMessage(message, imageBase64)
       THEN /\ alerts' = alerts \cup {"Please enter a message or add a photo"}
            /\ UNCHANGED << screen, radarVars, netVars, composeVars >>
       ELSE IF HasNoRecipients(users)
       THEN /\ alerts' = alerts \cup {"No users found to send message to"}
            /\ UNCHANGED << screen, radarVars, netVars, composeVars >>
       ELSE IF storedToken = Null
       THEN /\ alerts' = alerts \cup {"Authentication required"}
            /\ screen' = "login"
            /\ RadarUnmounted
            /\ ComposeUnmounted
       ELSE /\ Len(posts) < MaxPost
            /\ posts' = Append(posts, MessageRequest(message, users, imageBase64))
            /\ composeLoading' = TRUE
            /\ UNCHANGED << screen, alerts, radarVars, netVars >>
            /\ UNCHANGED << handedOff, users, message, imageUri, imageBase64 >>
    /\ UNCHANGED << accountVars, platform, storedToken >>

\* A response handler that clears the input when the submission failed.
MessageResponseClearsText(i, outcome) ==
    /\ i \in Indices(posts)
    /\ outcome \in {"ok", "non2xx", "401", "network"}
    /\ alerts' = alerts \cup
           {CASE outcome = "ok" -> "Message sent"
              [] outcome \in {"non2xx", "401"} -> "Failed to send message"
              [] OTHER -> "Network error. Please try again."}
    /\ composeLoading' = IF posts[i].orphan THEN composeLoading ELSE FALSE
    /\ posts' = RemoveAt(posts, i)
    /\ message' = IF outcome = "ok" \/ posts[i].orphan THEN message ELSE ""
    /\ UNCHANGED << handedOff, users, imageUri, imageBase64 >>
    /\ UNCHANGED << accountVars, platform, storedToken, screen, radarVars, netVars >>

\* sendMessage after its fetch: an Alert for every outcome; finally
\* setLoading(false).
MessageResponse(i, outcome) ==
    /\ i \in Indices(posts)
    /\ outcome \in {"ok", "non2xx", "401", "network"}
    /\ alerts' = alerts \cup
           {CASE outcome = "ok" -> "Message sent"
              [] outcome \in {"non2xx", "401"} -> "Failed to send message"
              [] OTHER -> "Network error. Please try again."}
    /\ composeLoading' = IF posts[i].orphan THEN composeLoading ELSE FALSE
    /\ posts' = RemoveAt(posts, i)
    /\ UNCHANGED << handedOff, users, message, imageUri, imageBase64 >>
    /\ UNCHANGED << accountVars, platform, storedToken, screen, radarVars, netVars >>

\* router.back(): the screen on top is unmounted.
RouterBack ==
    IF screen = "compose"
    THEN /\ screen' = "radar"
         /\ ComposeUnmounted
         /\ UNCHANGED << radarVars, netVars >>
    ELSE /\ screen' = "index"
         /\ RadarUnmounted
         /\ UNCHANGED composeVars

\* The back arrow in the compose screen's header.
ComposeBack ==
    /\ ComposeInteractive
    /\ RouterBack
    /\ UNCHANGED << accountVars, platform, storedToken, alerts >>

\* ------------------------------------------------------------------ account
\* A request of an account screen: kind names the endpoint, body what was
\* sent (for a load, the screen that sent it), read the userData that
\* updateProfile has read after a 2xx answer.
Call(kind, body) ==
    [kind |-> kind, body |-> body, orphan |-> FALSE, read |-> "unread"]

\* The account screen on top is unmounted; rest are the requests that stay
\* in flight.
AccountUnmounted(rest) ==
    /\ form' = ""
    /\ busy' = FALSE
    /\ pageLoading' = FALSE
    /\ calls' = Orphaned(rest)

\* router.replace('/auth/login'), taken to leave the login screen alone on
\* the stack.
ToLogin(rest) ==
    /\ screen' = "login"
    /\ RadarUnmounted
    /\ ComposeUnmounted
    /\ AccountUnmounted(rest)

\* A settings, preferences or notifications screen is mounted: loadProfile,
\* loadPreferences or loadNotifications up to its fetch.
OpenPage(page) ==
    /\ page \in AuthPages
    /\ IF storedToken = Null
       THEN ToLogin(calls)
       ELSE /\ Len(calls) < MaxCall
            /\ screen' = page
            /\ form' = ""
            /\ busy' = FALSE
            /\ pageLoading' = TRUE
            /\ calls' = Append(Orphaned(calls), Call("load", page))
            /\ UNCHANGED << radarVars, netVars, composeVars >>
    /\ UNCHANGED << registered, platform, storedToken, storedUser, alerts >>

\* goToProfile, goToPreferences, goToNotifications: router.push from the radar.
goToPage(page) ==
    /\ RadarInteractive
    /\ OpenPage(page)

\* The back arrow of a settings, preferences or notifications screen.
PageBack ==
    /\ screen \in AuthPages
    /\ alerts = {}
    /\ screen' = "radar"
    /\ AccountUnmounted(calls)
    /\ UNCHANGED << registered, platform, storedToken, storedUser, alerts, radarVars,
                    netVars, composeVars >>

\* loadProfile, loadPreferences, loadNotifications after the fetch.
LoadResponse(i, outcome, name) ==
    /\ i \in Indices(calls)
    /\ calls[i].kind = "load"
    /\ outcome \in {"ok", "401", "non2xx", "network"}
    /\ name \in FormValues \ {""}
    /\ IF outcome = "401"
       THEN /\ ToLogin(RemoveAt(calls, i))
            /\ UNCHANGED alerts
       ELSE /\ calls' = RemoveAt(calls, i)
            /\ pageLoading' = IF calls[i].orphan THEN pageLoading ELSE FALSE
            /\ form' = IF outcome = "ok" /\ calls[i].body = "settings"
                          /\ ~calls[i].orphan
                       THEN name ELSE form
            /\ alerts' =
                   IF calls[i].body = "settings" /\ outcome = "non2xx"
                   THEN alerts \cup {"Failed to load profile"}
                   ELSE IF calls[i].body = "settings" /\ outcome = "network"
                   THEN alerts \cup {"Network error. Please try again."}
                   ELSE alerts
            /\ UNCHANGED << screen, busy, radarVars, netVars, composeVars >>
    /\ UNCHANGED << registered, platform, storedToken, storedUser >>

\* onChangeText of the email, code or name field.
setForm(value) ==
    /\ screen \in {"login", "signup", "verify", "settings"}
    /\ alerts = {}
    /\ ~pageLoading
    /\ value \in FormValues
    /\ value # form
    /\ form' = value
    /\ UNCHANGED << registered, platform, storedToken, storedUser, screen, alerts, busy,
                    pageLoading, calls, radarVars, netVars, composeVars >>

\* updateProfile up to its fetch; the Save button is disabled={saving}.
updateProfile ==
    /\ screen = "settings"
    /\ alerts = {}
    /\ ~pageLoading
    /\ ~busy
    /\ IF form = ""
       THEN /\ alerts' = alerts \cup {"Please fill in all fields"}
            /\ UNCHANGED << screen, form, busy, pageLoading, calls,
                            radarVars, netVars, composeVars >>
       ELSE IF storedToken = Null
       THEN /\ ToLogin(calls)
            /\ UNCHANGED alerts
       ELSE /\ Len(calls) < MaxCall
            /\ busy' = TRUE
            /\ calls' = Append(calls, Call("updateProfile", form))
            /\ UNCHANGED << screen, alerts, form, pageLoading,
                            radarVars, netVars, composeVars >>
    /\ UNCHANGED << registered, platform, storedToken, storedUser >>

\* updateProfile after its fetch, up to the answer of
\* AsyncStorage.getItem('userData') when the response is ok.
UpdateProfileResponse(i, outcome) ==
    /\ i \in Indices(calls)
    /\ calls[i].kind = "updateProfile"
    /\ calls[i].read = "unread"
    /\ outcome \in {"ok", "401", "non2xx", "network"}
    /\ IF outcome = "ok"
       THEN /\ calls' = [calls EXCEPT ![i].read = storedUser]
            /\ UNCHANGED << screen, alerts, form, busy, pageLoading,
                            radarVars, netVars, composeVars >>
       ELSE IF outcome = "401"
       THEN /\ ToLogin(RemoveAt(calls, i))
            /\ UNCHANGED alerts
       ELSE /\ calls' = RemoveAt(calls, i)
            /\ alerts' = alerts \cup
                   {IF outcome = "non2xx" THEN "Failed to update profile"
                    ELSE "Network error. Please try again."}
            /\ busy' = IF calls[i].orphan THEN busy ELSE FALSE
            /\ UNCHANGED << screen, form, pageLoading,
                            radarVars, netVars, composeVars >>
    /\ UNCHANGED << registered, platform, storedToken, storedUser >>

\* An updateProfile that stores the merged snapshot under 'authToken'.
UpdateProfileStoreWrongKey(i) ==
    /\ i \in Indices(calls)
    /\ calls[i].kind = "updateProfile"
    /\ calls[i].read # "unread"
    /\ storedToken' = IF calls[i].read = Null THEN storedToken ELSE calls[i].body
    /\ alerts' = alerts \cup {"Profile updated successfully!"}
    /\ busy' = IF calls[i].orphan THEN busy ELSE FALSE
    /\ calls' = RemoveAt(calls, i)
    /\ UNCHANGED << registered, platform, storedUser, screen, form, pageLoading,
                    radarVars, netVars, composeVars >>

\* updateProfile from the answer of getItem('userData') to its end: the
\* snapshot read, if any, is stored again with the form's fields over it.
UpdateProfileStore(i) ==
    /\ i \in Indices(calls)
    /\ calls[i].kind = "updateProfile"
    /\ calls[i].read # "unread"
    /\ storedUser' = IF calls[i].read = Null THEN storedUser ELSE calls[i].body
    /\ alerts' = alerts \cup {"Profile updated successfully!"}
    /\ busy' = IF calls[i].orphan THEN busy ELSE FALSE
    /\ calls' = RemoveAt(calls, i)
    /\ UNCHANGED << registered, platform, storedToken, screen, form, pageLoading,
                    radarVars, netVars, composeVars >>

\* savePreferences up to its fetch; the Save button is disabled={saving}.
savePreferences ==
    /\ screen = "preferences"
    /\ alerts = {}
    /\ ~pageLoading
    /\ ~busy
    /\ IF storedToken = Null
       THEN ToLogin(calls)
       ELSE /\ Len(calls) < MaxCall
            /\ busy' = TRUE
            /\ calls' = Append(calls, Call("savePreferences", "preferences"))
            /\ UNCHANGED << screen, form, pageLoading,
                            radarVars, netVars, composeVars >>
    /\ UNCHANGED << registered, platform, storedToken, storedUser, alerts >>

\* A savePreferences that only logs a failure, as loadPreferences does.
SavePreferencesResponseSilent(i, outcome) ==
    /\ i \in Indices(calls)
    /\ calls[i].kind = "savePreferences"
    /\ outcome \in {"ok", "401", "non2xx", "network"}
    /\ IF outcome = "401"
       THEN /\ ToLogin(RemoveAt(calls, i))
            /\ UNCHANGED alerts
       ELSE /\ calls' = RemoveAt(calls, i)
            /\ alerts' = IF outcome = "ok"
                         THEN alerts \cup {"Preferences saved successfully!"}
                         ELSE alerts
            /\ busy' = IF calls[i].orphan THEN busy ELSE FALSE
            /\ UNCHANGED << screen, form, pageLoading,
                            radarVars, netVars, composeVars >>
    /\ UNCHANGED << registered, platform, storedToken, storedUser >>

\* savePreferences after its fetch.
SavePreferencesResponse(i, outcome) ==
    /\ i \in Indices(calls)
    /\ calls[i].kind = "savePreferences"
    /\ outcome \in {"ok", "401", "non2xx", "network"}
    /\ IF outcome = "401"
       THEN /\ ToLogin(RemoveAt(calls, i))
            /\ UNCHANGED alerts
       ELSE /\ calls' = RemoveAt(calls, i)
            /\ alerts' = alerts \cup
                   {CASE outcome = "ok" -> "Preferences saved successfully!"
                      [] outcome = "non2xx" -> "Failed to save preferences"
                      [] OTHER -> "Network error. Please try again."}
            /\ busy' = IF calls[i].orphan THEN busy ELSE FALSE
            /\ UNCHANGED << screen, form, pageLoading,
                            radarVars, netVars, composeVars >>
    /\ UNCHANGED << registered, platform, storedToken, storedUser >>

\* handleLogout: the Alert that asks for confirmation.
handleLogout ==
    /\ screen = "settings"
    /\ alerts = {}
    /\ ~pageLoading
    /\ alerts' = alerts \cup {"Are you sure you want to logout?"}
    /\ UNCHANGED << registered, platform, storedToken, screen, radarVars, netVars,
                    composeVars, accountVars >>

\* A logout that removes the token and leaves the profile snapshot.
ConfirmLogoutKeepsUser ==
    /\ "Are you sure you want to logout?" \in alerts
    /\ alerts' = alerts \ {"Are you sure you want to logout?"}
    /\ storedToken' = Null
    /\ screen' = "index"
    /\ RadarUnmounted
    /\ ComposeUnmounted
    /\ AccountUnmounted(calls)
    /\ UNCHANGED << registered, platform, storedUser >>

\* The Logout button of that Alert: AsyncStorage.multiRemove and
\* router.replace('/'), taken to leave the welcome screen alone on the stack.
ConfirmLogout ==
    /\ "Are you sure you want to logout?" \in alerts
    /\ alerts' = alerts \ {"Are you sure you want to logout?"}
    /\ storedToken' = Null
    /\ storedUser' = Null
    /\ screen' = "index"
    /\ RadarUnmounted
    /\ ComposeUnmounted
    /\ AccountUnmounted(calls)
    /\ UNCHANGED << registered, platform >>

\* router.push('/auth/login') or router.push('/auth/signup'), from the
\* welcome screen or from the other of the two.
goToAuth(target) ==
    /\ screen \in {"index", "login", "signup"}
    /\ target \in {"login", "signup"}
    /\ target # screen
    /\ alerts = {}
    /\ screen' = target
    /\ AccountUnmounted(calls)
    /\ UNCHANGED << registered, platform, storedToken, storedUser, alerts, radarVars,
                    netVars, composeVars >>

\* handleLogin and handleVerify up to the fetch; the button is
\* disabled={loading}.
handleAuth(kind) ==
    /\ kind \in {"login", "verify"}
    /\ screen = kind
    /\ alerts = {}
    /\ ~busy
    /\ IF form = ""
       THEN /\ alerts' = alerts \cup
                   {IF kind = "login" THEN "Please enter your email"
                    ELSE "Please enter the verification code"}
            /\ UNCHANGED << busy, calls >>
       ELSE /\ Len(calls) < MaxCall
            /\ busy' = TRUE
            /\ calls' = Append(calls, Call(kind, form))
            /\ UNCHANGED alerts
    /\ UNCHANGED << registered, platform, storedToken, storedUser, screen, form,
                    pageLoading, radarVars, netVars, composeVars >>

\* A response handler that stores what the answer carried before it has
\* looked at response.ok.
AuthResponseStoresFirst(i, outcome) ==
    /\ i \in Indices(calls)
    /\ calls[i].kind \in {"login", "verify"}
    /\ outcome \in {"ok", "non2xx", "network"}
    /\ IF outcome \in {"ok", "non2xx"}
       THEN /\ storedToken' = "tok"
            /\ storedUser' = "Ann"
       ELSE UNCHANGED << storedToken, storedUser >>
    /\ alerts' = alerts \cup
           {CASE outcome = "ok" /\ calls[i].kind = "login" -> "Login successful!"
              [] outcome = "ok" -> "Account verified successfully!"
              [] outcome = "non2xx" /\ calls[i].kind = "login" -> "Login failed"
              [] outcome = "non2xx" -> "Verification failed"
              [] OTHER -> "Network error. Please try again."}
    /\ busy' = IF calls[i].orphan THEN busy ELSE FALSE
    /\ calls' = RemoveAt(calls, i)
    /\ UNCHANGED << registered, platform, screen, form, pageLoading, radarVars, netVars,
                    composeVars >>

\* handleLogin and handleVerify after the fetch: a 2xx answer stores the
\* token and the user; every outcome raises an Alert; finally
\* setLoading(false).
AuthResponse(i, outcome) ==
    /\ i \in Indices(calls)
    /\ calls[i].kind \in {"login", "verify"}
    /\ outcome \in {"ok", "non2xx", "network"}
    /\ IF outcome = "ok"
       THEN /\ storedToken' = "tok"
            /\ storedUser' = "Ann"
       ELSE UNCHANGED << storedToken, storedUser >>
    /\ alerts' = alerts \cup
           {CASE outcome = "ok" /\ calls[i].kind = "login" -> "Login successful!"
              [] outcome = "ok" -> "Account verified successfully!"
              [] outcome = "non2xx" /\ calls[i].kind = "login" -> "Login failed"
              [] outcome = "non2xx" -> "Verification failed"
              [] OTHER -> "Network error. Please try again."}
    /\ busy' = IF calls[i].orphan THEN busy ELSE FALSE
    /\ calls' = RemoveAt(calls, i)
    /\ UNCHANGED << registered, platform, screen, form, pageLoading, radarVars, netVars,
                    composeVars >>

\* handleSignup up to its fetch.
handleSignup ==
    /\ screen = "signup"
    /\ alerts = {}
    /\ ~busy
    /\ IF form = ""
       THEN /\ alerts' = alerts \cup {"Please fill in all fields"}
            /\ UNCHANGED << busy, calls >>
       ELSE /\ Len(calls) < MaxCall
            /\ busy' = TRUE
            /\ calls' = Append(calls, Call("signup", form))
            /\ UNCHANGED alerts
    /\ UNCHANGED << registered, platform, storedToken, storedUser, screen, form,
                    pageLoading, radarVars, netVars, composeVars >>

\* POST /api/auth/signup at the backend: 400 "User already exists" for an
\* email that has an account, a new account and its user_id otherwise.
BackendSignup(accounts, email) ==
    IF accounts[email] > 0
    THEN [status |-> "exists", accounts |-> accounts]
    ELSE [status |-> "ok",
          accounts |-> [accounts EXCEPT ![email] = @ + 1]]

\* A handleSignup that goes on to /auth/verify whatever the answer's status.
SignupResponseIgnoresStatus(i, outcome) ==
    /\ i \in Indices(calls)
    /\ calls[i].kind = "signup"
    /\ outcome \in {"ok", "exists", "non2xx", "network"}
    /\ outcome \in {"ok", "exists"} =>
           outcome = BackendSignup(registered, calls[i].body).status
    /\ registered' \in
           CASE outcome = "ok" -> {BackendSignup(registered, calls[i].body).accounts}
             [] outcome = "network" ->
                    {registered, BackendSignup(registered, calls[i].body).accounts}
             [] OTHER -> {registered}
    /\ IF outcome # "network"
       THEN /\ screen' = "verify"
            /\ form' = "Ann"
            /\ busy' = FALSE
            /\ pageLoading' = FALSE
            /\ calls' = Orphaned(RemoveAt(calls, i))
            /\ UNCHANGED alerts
       ELSE /\ alerts' = alerts \cup {"Network error. Please try again."}
            /\ busy' = IF calls[i].orphan THEN busy ELSE FALSE
            /\ calls' = RemoveAt(calls, i)
            /\ UNCHANGED << screen, form, pageLoading >>
    /\ UNCHANGED << platform, storedToken, storedUser, radarVars, netVars,
                    composeVars >>

\* handleSignup after its fetch: a 2xx answer pushes /auth/verify, whose
\* effect fills in the code the answer carried.  The backend answers 2xx or
\* "User already exists" as the email requires, or rejects the request
\* (422, 5xx); a network error may lose the request or the answer.
SignupResponse(i, outcome) ==
    /\ i \in Indices(calls)
    /\ calls[i].kind = "signup"
    /\ outcome \in {"ok", "exists", "non2xx", "network"}
    /\ outcome \in {"ok", "exists"} =>
           outcome = BackendSignup(registered, calls[i].body).status
    /\ registered' \in
           CASE outcome = "ok" -> {BackendSignup(registered, calls[i].body).accounts}
             [] outcome = "network" ->
                    {registered, BackendSignup(registered, calls[i].body).accounts}
             [] OTHER -> {registered}
    /\ IF outcome = "ok"
       THEN /\ screen' = "verify"
            /\ form' = "Ann"
            /\ busy' = FALSE
            /\ pageLoading' = FALSE
            /\ calls' = Orphaned(RemoveAt(calls, i))
            /\ UNCHANGED alerts
       ELSE /\ alerts' = alerts \cup
                   {CASE outcome = "exists" -> "Account Exists"
                      [] outcome = "non2xx" -> "Signup failed"
                      [] OTHER -> "Network error. Please try again."}
            /\ busy' = IF calls[i].orphan THEN busy ELSE FALSE
            /\ calls' = RemoveAt(calls, i)
            /\ UNCHANGED << screen, form, pageLoading >>
    /\ UNCHANGED << platform, storedToken, storedUser, radarVars, netVars,
                    composeVars >>

\* The Login button of the 'Account Exists' Alert: router.push('/auth/login').
AccountExistsLogin ==
    /\ "Account Exists" \in alerts
    /\ alerts' = alerts \ {"Account Exists"}
    /\ screen' = "login"
    /\ AccountUnmounted(calls)
    /\ UNCHANGED << registered, platform, storedToken, storedUser, radarVars, netVars,
                    composeVars >>

\* router.replace('/map'): a new RadarScreen, about to run initializeScreen.
OpenRadar ==
    /\ screen' = "radar"
    /\ location' = Nil
    /\ nearbyUsers' = << >>
    /\ userBlips' = << >>
    /\ selectedUser' = Nil
    /\ loading' = TRUE
    /\ radius' = InitialRadius
    /\ authToken' = Null
    /\ updating' = FALSE
    /\ inits' = [token |-> 1, permission |-> 0, position |-> 0]
    /\ searches' = << >>
    /\ pushes' = 0
    /\ latestOk' = 0
    /\ ComposeUnmounted
    /\ AccountUnmounted(calls)

\* The app is opened at the route of an authenticated screen.
DeepLink(route) ==
    /\ screen = "index"
    /\ alerts = {}
    /\ route \in AuthPages \cup {"radar"}
    /\ IF route = "radar"
       THEN /\ OpenRadar
            /\ UNCHANGED << registered, platform, storedToken, storedUser, alerts >>
       ELSE OpenPage(route)

\* The OK button, or the Cancel button, of an Alert, with the onPress the
\* Alert was given.
DismissAlert(a) ==
    /\ a \in alerts
    /\ alerts' = alerts \ {a}
    /\ IF a = "Please login first"
       THEN ToLogin(calls)
       ELSE IF a \in {"Login successful!", "Account verified successfully!"}
       THEN OpenRadar
       ELSE IF a = "Message sent" /\ screen \in {"compose", "radar"}
       THEN /\ RouterBack
            /\ UNCHANGED << form, busy, pageLoading, calls >>
       ELSE UNCHANGED << screen, radarVars, netVars, composeVars,
                         form, busy, pageLoading, calls >>
    /\ UNCHANGED << registered, platform, storedToken, storedUser >>

\* ------------------------------------------------------------------ system
Init ==
    /\ platform \in {"web", "mobile"}
    /\ storedToken \in {Null, "tok"}
    /\ screen = "radar"
    /\ alerts = {}
    /\ location = Nil
    /\ nearbyUsers = << >>
    /\ userBlips = << >>
    /\ selectedUser = Nil
    /\ loading = TRUE
    /\ radius = InitialRadius
    /\ authToken = Null
    /\ updating = FALSE
    /\ inits = [token |-> 1, permission |-> 0, position |-> 0]
    /\ searches = << >>
    /\ pushes = 0
    /\ latestOk = 0
    /\ handedOff = << >>
    /\ users = << >>
    /\ message = ""
    /\ imageUri = Null
    /\ imageBase64 = Null
    /\ composeLoading = FALSE
    /\ posts = << >>
    /\ storedUser = IF storedToken = Null THEN Null ELSE "Ann"
    /\ form = ""
    /\ busy = FALSE
    /\ pageLoading = FALSE
    /\ calls = << >>
    /\ registered = [e \in Emails |->
                        IF storedToken # Null /\ e = "Ann" THEN 1 ELSE 0]

Next ==
    \/ InitReadToken
    \/ \E status \in {"granted", "denied"} : InitPermission(status)
    \/ \E ok \in BOOLEAN : InitPosition(ok)
    \/ RetryInit
    \/ PushDone
    \/ \E value \in SliderValues : handleSliderChange(value)
    \/ handleRefresh
    \/ \E i \in 1 .. MaxSearch : SearchOk(i)
    \/ \E i \in 1 .. MaxSearch, kind \in {"network", "unparsable", "non2xx", "401"} :
           SearchFailed(i, kind)
    \/ \E i \in 1 .. Cardinality(DOMAIN BackendUsers) : handleUserBlipPress(i)
    \/ handleSendMessage
    \/ \E p \in {MissingParam, ArrayParam, GarbageParam} : DeepLinkCompose(p)
    \/ \E text \in Texts : setMessage(text)
    \/ \E outcome \in {"denied", "base64", "uriOnly"} : attachPhoto(outcome)
    \/ removeImage
    \/ sendMessage
    \/ \E i \in 1 .. MaxPost, outcome \in {"ok", "non2xx", "401", "network"} :
           MessageResponse(i, outcome)
    \/ ComposeBack
    \/ \E a \in alerts : DismissAlert(a)

Spec == Init /\ [][Next]_vars

\* The search path of the radar screen: initialisation on either platform,
\* radius changes, refreshes, and the answers to pushes and searches.
NextSearch ==
    \/ InitReadToken
    \/ \E status \in {"granted", "denied"} : InitPermission(status)
    \/ \E ok \in BOOLEAN : InitPosition(ok)
    \/ RetryInit
    \/ PushDone
    \/ \E value \in SliderValues : handleSliderChange(value)
    \/ handleRefresh
    \/ \E i \in 1 .. MaxSearch : SearchOk(i)
    \/ \E i \in 1 .. MaxSearch, kind \in {"network", "unparsable", "non2xx", "401"} :
           SearchFailed(i, kind)
    \/ \E a \in alerts : DismissAlert(a)

SpecSearch == Init /\ [][NextSearch]_vars

\* The radar with the Slider in front of handleSliderChange.
SliderDrag(raw) == handleSliderChange(SliderValue(raw))

\* The search path driven by thumb positions instead of reported values.
NextSlider ==
    \/ InitReadToken
    \/ \E status \in {"granted", "denied"} : InitPermission(status)
    \/ \E ok \in BOOLEAN : InitPosition(ok)
    \/ RetryInit
    \/ PushDone
    \/ \E raw \in ThumbPositions : SliderDrag(raw)
    \/ handleRefresh
    \/ \E i \in 1 .. MaxSearch : SearchOk(i)
    \/ \E i \in 1 .. MaxSearch, kind \in {"network", "unparsable", "non2xx", "401"} :
           SearchFailed(i, kind)
    \/ \E a \in alerts : DismissAlert(a)

SpecSlider == Init /\ [][NextSlider]_vars

\* ------------------------------------------------------------------ SVG radar
\* The SVG variant's radarCenter - 40.
SvgAvailablePixels == 120

\* The SVG variant's Math.random() * 30, as whole degrees.
SvgJitters == {0, 29}

\* The SVG variant's layout effect: the distance is scaled to the radar and
\* not limited to it.
SvgLayout(list, r, jitter) ==
    [i \in Indices(list) |->
        [id |-> list[i].id,
         name |-> list[i].name,
         distance_miles |-> list[i].distance_miles,
         angle |-> ((i - 1) * 45 + jitter[i]) % 360,
         radius |-> (list[i].distance_miles * SvgAvailablePixels) \div r,
         selected |-> FALSE]]

\* A render of the SVG variant that commits new values of location, radius,
\* authToken and loading, with the two effects that depend on them.
SvgCommit(newLoc, newRad, newTok, newLoading) ==
    /\ location' = newLoc
    /\ radius' = newRad
    /\ authToken' = newTok
    /\ loading' = newLoading
    /\ IF EffectFires(newLoc, newRad, newTok)
       THEN /\ pushes < MaxPush
            /\ Len(searches) < MaxSearch
            /\ pushes' = pushes + 1
            /\ searches' = Append(searches, SearchRequest(newLoc, newRad))
            /\ updating' = TRUE
       ELSE UNCHANGED << pushes, searches, updating >>
    /\ IF newRad # radius
       THEN \E jitter \in [Indices(nearbyUsers) -> SvgJitters] :
                userBlips' = SvgLayout(nearbyUsers, newRad, jitter)
       ELSE UNCHANGED userBlips
    /\ UNCHANGED << nearbyUsers, selectedUser, latestOk >>

\* The SVG variant's initializeScreen on the web, up to its end.
SvgInitReadToken ==
    /\ RadarMounted
    /\ inits.token > 0
    /\ platform = "web"
    /\ IF storedToken = Null
       THEN /\ alerts' = alerts \cup {"Please login first"}
            /\ loading' = FALSE
            /\ UNCHANGED << location, radius, authToken, pushes, searches,
                            updating, userBlips, nearbyUsers, selectedUser,
                            latestOk >>
       ELSE /\ SvgCommit(NewLocation(FallbackCoordinate), radius, storedToken, FALSE)
            /\ UNCHANGED alerts
    /\ inits' = [inits EXCEPT !.token = @ - 1]
    /\ UNCHANGED << accountVars, platform, storedToken, screen, composeVars >>

\* The SVG variant's Slider: onValueChange={setRadius}.
SvgSliderChange(value) ==
    /\ RadarInteractive
    /\ value # radius
    /\ SvgCommit(location, setRadius(value), authToken, loading)
    /\ UNCHANGED << accountVars, platform, storedToken, screen, alerts, inits, composeVars >>

\* The SVG variant's findNearbyUsers after its fetch, response.ok.
SvgSearchOk(i) ==
    /\ RadarMounted
    /\ i \in Indices(searches)
    /\ nearbyUsers' = Received(searches[i], nearbyUsers)
    /\ \E jitter \in [Indices(nearbyUsers') -> SvgJitters] :
           userBlips' = SvgLayout(nearbyUsers', radius, jitter)
    /\ updating' = FALSE
    /\ searches' = AfterAnswer(i)
    /\ latestOk' = IF searches[i].superseded THEN latestOk
                   ELSE searches[i].radius_miles
    /\ UNCHANGED << location, selectedUser, loading, radius, authToken,
                    inits, pushes >>
    /\ UNCHANGED << accountVars, platform, storedToken, screen, alerts, composeVars >>

\* A device with a stored session, on the web platform.
InitWeb == Init /\ platform = "web" /\ storedToken = "tok"

\* The radar screen with selection and the hand-off to the compose screen.
NextSelect ==
    \/ InitReadToken
    \/ PushDone
    \/ \E value \in SliderValues : handleSliderChange(value)
    \/ handleRefresh
    \/ \E i \in 1 .. MaxSearch : SearchOk(i)
    \/ \E i \in 1 .. MaxSearch, kind \in {"network", "unparsable", "non2xx", "401"} :
           SearchFailed(i, kind)
    \/ \E i \in 1 .. Cardinality(DOMAIN BackendUsers) : handleUserBlipPress(i)
    \/ handleSendMessage
    \/ ComposeBack

SpecSelect == InitWeb /\ [][NextSelect]_vars

\* The SVG variant of the radar on the web with a stored token.
NextSvg ==
    \/ SvgInitReadToken
    \/ PushDone
    \/ \E value \in SliderValues : SvgSliderChange(value)
    \/ handleRefresh
    \/ \E i \in 1 .. MaxSearch : SvgSearchOk(i)
    \/ \E i \in 1 .. MaxSearch, kind \in {"network", "unparsable", "non2xx", "401"} :
           SearchFailed(i, kind)
    \/ \E i \in 1 .. Cardinality(DOMAIN BackendUsers) : handleUserBlipPress(i)

SpecSvg == InitWeb /\ [][NextSvg]_vars

\* The web platform, with or without a stored session.
InitCompose == Init /\ platform = "web"

\* The compose screen, opened from the radar screen or by a link, at the
\* radius the radar screen starts with.
NextCompose ==
    \/ InitReadToken
    \/ PushDone
    \/ \E i \in 1 .. MaxSearch : SearchOk(i)
    \/ \E i \in 1 .. Cardinality(DOMAIN BackendUsers) : handleUserBlipPress(i)
    \/ handleSendMessage
    \/ \E p \in {MissingParam, ArrayParam, GarbageParam} : DeepLinkCompose(p)
    \/ \E text \in Texts : setMessage(text)
    \/ \E outcome \in {"denied", "base64", "uriOnly"} : attachPhoto(outcome)
    \/ removeImage
    \/ sendMessage
    \/ \E i \in 1 .. MaxPost, outcome \in {"ok", "non2xx", "401", "network"} :
           MessageResponse(i, outcome)
    \/ ComposeBack
    \/ \E a \in alerts : DismissAlert(a)

SpecCompose == InitCompose /\ [][NextCompose]_vars

\* A message written and sent while the radar screen below still receives
\* the answers to its searches.
NextHandoff ==
    \/ InitReadToken
    \/ PushDone
    \/ \E value \in {InitialRadius, 20} : handleSliderChange(value)
    \/ \E i \in 1 .. MaxSearch : SearchOk(i)
    \/ \E i \in 1 .. Cardinality(DOMAIN BackendUsers) : handleUserBlipPress(i)
    \/ handleSendMessage
    \/ setMessage("hi")
    \/ sendMessage
    \/ \E i \in 1 .. MaxPost, outcome \in {"ok", "non2xx", "401", "network"} :
           MessageResponse(i, outcome)
    \/ \E a \in alerts : DismissAlert(a)

SpecHandoff == InitWeb /\ [][NextHandoff]_vars

\* The MapView variant of the discovery screen: its initialisation, radius
\* slider, refresh and the answers to its pushes and searches.
NextMapVariant ==
    \/ MapInitReadToken
    \/ \E status \in {"granted", "denied"} : InitPermission(status)
    \/ \E ok \in BOOLEAN : InitPosition(ok)
    \/ RetryInit
    \/ PushDone
    \/ \E value \in SliderValues : handleSliderChange(value)
    \/ handleRefresh
    \/ \E i \in 1 .. MaxSearch : SearchOk(i)
    \/ \E i \in 1 .. MaxSearch, kind \in {"network", "unparsable", "non2xx", "401"} :
           SearchFailed(i, kind)
    \/ \E a \in alerts : DismissAlert(a)

SpecMapVariant == Init /\ [][NextMapVariant]_vars

\* The account screens: login, signup and verification, and the settings,
\* preferences and notifications screens over a radar on the web platform.
NextAccount ==
    \/ InitReadToken
    \/ PushDone
    \/ \E i \in 1 .. MaxSearch : SearchOk(i)
    \/ \E page \in AuthPages : goToPage(page)
    \/ PageBack
    \/ \E i \in 1 .. MaxCall, outcome \in {"ok", "401", "non2xx", "network"},
          name \in FormValues \ {""} : LoadResponse(i, outcome, name)
    \/ \E value \in FormValues : setForm(value)
    \/ updateProfile
    \/ \E i \in 1 .. MaxCall, outcome \in {"ok", "401", "non2xx", "network"} :
           UpdateProfileResponse(i, outcome)
    \/ \E i \in 1 .. MaxCall : UpdateProfileStore(i)
    \/ savePreferences
    \/ \E i \in 1 .. MaxCall, outcome \in {"ok", "401", "non2xx", "network"} :
           SavePreferencesResponse(i, outcome)
    \/ handleLogout
    \/ ConfirmLogout
    \/ \E target \in {"login", "signup"} : goToAuth(target)
    \/ \E kind \in {"login", "verify"} : handleAuth(kind)
    \/ \E i \in 1 .. MaxCall, outcome \in {"ok", "non2xx", "network"} :
           AuthResponse(i, outcome)
    \/ handleSignup
    \/ \E i \in 1 .. MaxCall, outcome \in {"ok", "exists", "non2xx", "network"} :
           SignupResponse(i, outcome)
    \/ AccountExistsLogin
    \/ \E route \in AuthPages \cup {"radar"} : DeepLink(route)
    \/ \E a \in alerts : DismissAlert(a)

SpecAccount == InitCompose /\ [][NextAccount]_vars

\* Every action a user starts: the account pages and sign-in screens
\* together with the compose screen reached from a selected radar blip.
NextActions ==
    \/ NextAccount
    \/ \E i \in 1 .. Cardinality(DOMAIN BackendUsers) : handleUserBlipPress(i)
    \/ handleSendMessage
    \/ \E text \in Texts : setMessage(text)
    \/ sendMessage
    \/ \E i \in 1 .. MaxPost, outcome \in {"ok", "non2xx", "401", "network"} :
           MessageResponse(i, outcome)
    \/ ComposeBack

SpecActions == InitCompose /\ [][NextActions]_vars

\* ------------------------------------------------------------------ claims
\* C1: the response to an older nearby-user search never overwrites the
\* result of a newer one: once a request has been answered with 2xx,
\* nearbyUsers is the result of the newest request answered so far.
C1_NewerResultKept ==
    latestOk # 0 => nearbyUsers = NearbyResult(latestOk)

\* C2: a refresh never starts a nearby-user search while another search is
\* still outstanding.
C2_RefreshNeverOverlaps ==
    [][handleRefresh => searches = << >>]_vars

\* C3: at most one blip has selected = true.
C3_SingleSelection ==
    Cardinality({i \in Indices(userBlips) : userBlips[i].selected}) <= 1

\* Two blips on the radar, one of them selected.
C3_Witness ==
    /\ Len(userBlips) = 2
    /\ \E i \in Indices(userBlips) : userBlips[i].selected

\* C4: a nearby-user search that fails (network error, unparsable body or
\* non-2xx) leaves nearbyUsers as it was, raises no Alert and sets
\* updating to false.
C4_FailedSearchSwallowed ==
    [][\A i \in 1 .. MaxSearch, kind \in {"network", "unparsable", "non2xx", "401"} :
           SearchFailed(i, kind) =>
               /\ nearbyUsers' = nearbyUsers
               /\ alerts' = alerts
               /\ updating' = FALSE]_vars

\* The search for the radius on display has ended without a result, and the
\* list shown is still the one of the radius before.
C4_Witness ==
    /\ location # Nil
    /\ searches = << >>
    /\ radius = 20
    /\ latestOk = 10
    /\ nearbyUsers = NearbyResult(10)
    /\ ~updating
    /\ alerts = {}

\* C5: a change of location, radius or token that leaves location and token
\* present issues exactly one location push and one nearby-user search, of
\* the new radius; a step that leaves location or token absent issues none.
C5_ChangeIssuesOnePushOneSearch ==
    [][/\ ( /\ location' # location \/ radius' # radius \/ authToken' # authToken
            /\ location' # Nil
            /\ authToken' # Null )
          => /\ pushes' = pushes + 1
             /\ Len(searches') = Len(searches) + 1
             /\ SubSeq(searches', 1, Len(searches)) = searches
             /\ searches'[Len(searches')].radius_miles = radius'
       /\ (location' = Nil \/ authToken' = Null)
          => /\ pushes' <= pushes
             /\ Len(searches') <= Len(searches)]_vars

\* The radius was moved to 2.0 while the first search was still in flight:
\* a second search, of radius 2.0, and one push are in flight.
C5_Witness ==
    /\ radius = 20
    /\ Len(searches) = 2
    /\ searches[2].radius_miles = 20
    /\ pushes = 1

\* C6: composing fails with NoUsersAvailable whenever nearbyUsers is empty,
\* and with NoSelection whenever nearbyUsers is non-empty and no user is
\* selected.
C6_ComposeFailures ==
    RadarInteractive =>
        /\ Len(nearbyUsers) = 0 => SendOutcome = "NoUsersAvailable"
        /\ (Len(nearbyUsers) # 0 /\ selectedUser = Nil) => SendOutcome = "NoSelection"

\* C7: the list handed to the compose screen is non-empty and holds the
\* nearbyUsers records of the selected user.
C7_HandOffMatchesSelection ==
    screen = "compose" =>
        /\ Len(handedOff) >= 1
        /\ \A i \in Indices(handedOff) : handedOff[i].id = selectedUser.id

\* C8: the recipient_ids of every POST /api/messages are the ids of the
\* list handed off when the sending screen was opened.
C8_RecipientsAreSnapshot ==
    \A k \in Indices(posts) :
        posts[k].recipient_ids = RecipientIds(posts[k].handedOff)

\* A message is in flight whose recipients are no longer what the radar
\* screen's list and selection would give.
C8_Witness ==
    /\ screen = "compose"
    /\ \E k \in Indices(posts) :
           /\ ~posts[k].orphan
           /\ posts[k].recipient_ids # << >>
           /\ posts[k].recipient_ids #
                  RecipientIds(FullUserData(nearbyUsers, selectedUser))

\* C9: sendMessage with an empty or blank text and no photo raises the
\* EmptyMessage Alert, issues no POST, leaves loading false and text, photo
\* and recipients unchanged.
C9_EmptyMessageRejected ==
    [][(sendMessage /\ message \in {"", " "} /\ imageBase64 = Null) =>
           /\ "Please enter a message or add a photo" \in alerts'
           /\ posts' = posts
           /\ ~composeLoading /\ ~composeLoading'
           /\ message' = message
           /\ imageUri' = imageUri /\ imageBase64' = imageBase64
           /\ users' = users]_vars

\* A blank message to a real recipient was refused.
C9_Witness ==
    /\ screen = "compose"
    /\ "Please enter a message or add a photo" \in alerts
    /\ message = " "
    /\ Len(users) > 0
    /\ posts = << >>
    /\ ~composeLoading

\* C10 as stated: sendMessage on an empty recipient snapshot raises the
\* NoRecipients Alert.
C10_EmptySnapshotFailsNoRecipients ==
    [][(sendMessage /\ Len(users) = 0) =>
           "No users found to send message to" \in alerts']_vars

\* C10 as amended: sendMessage on an empty recipient snapshot issues no
\* POST; it raises the NoRecipients Alert when there is a text or a photo,
\* the EmptyMessage Alert when there is neither; and no POST in flight has
\* an empty recipient_ids.
C10_NoPostWithoutRecipients ==
    [][/\ (sendMessage /\ Len(users) = 0) =>
              /\ posts' = posts
              /\ IF message \in {"", " "} /\ imageBase64 = Null
                 THEN "Please enter a message or add a photo" \in alerts'
                 ELSE "No users found to send message to" \in alerts'
       /\ \A k \in Indices(posts') : posts'[k].recipient_ids # << >>]_vars

\* A message with a text was refused for want of recipients.
C10_Witness ==
    /\ screen = "compose"
    /\ "No users found to send message to" \in alerts
    /\ users = << >>
    /\ message = "hi"
    /\ posts = << >>

\* C11: a failed submission (non-2xx or network error) leaves the compose
\* screen idle, with loading false and text, photo and recipients unchanged,
\* so that what sendMessage would post next, the input not having been edited
\* meanwhile, is the failed request again; and
\* a request is only ever issued by a sendMessage step, with that payload.
C11_FailedSendRetryable ==
    [][/\ \A i \in 1 .. MaxPost, outcome \in {"non2xx", "network"} :
              (MessageResponse(i, outcome) /\ ~posts[i].orphan) =>
                  /\ composeLoading' = FALSE
                  /\ message' = message
                  /\ imageUri' = imageUri /\ imageBase64' = imageBase64
                  /\ users' = users
                  /\ Len(posts') = Len(posts) - 1
                  /\ (Trim(message) = posts[i].content
                        /\ imageBase64 = posts[i].image_data) =>
                         MessageRequest(message', users', imageBase64')
                             = [posts[i] EXCEPT !.handedOff = handedOff']
                  /\ alerts' \cap {"Failed to send message",
                                   "Network error. Please try again."} # {}
       /\ Len(posts') > Len(posts) =>
              /\ sendMessage
              /\ posts'[Len(posts')] = MessageRequest(message, users, imageBase64)]_vars

\* The compose screen after a submission failed: idle, the message and its
\* recipient still there.
C11_Witness ==
    /\ screen = "compose"
    /\ "Network error. Please try again." \in alerts
    /\ ~composeLoading
    /\ message = "hi"
    /\ Len(users) = 1
    /\ posts = << >>

C13_PermissionDeniedBlocks ==
    [][/\ (InitPermission("denied") /\ location = Nil) =>
              /\ "Location permission is required to use this app" \in alerts'
              /\ location' = Nil
              /\ loading' = FALSE
              /\ inits'.position = inits.position
       /\ location' = Nil => (pushes' = 0 /\ searches' = << >>)
       /\ (location = Nil /\ location' # Nil) =>
              \/ InitPosition(TRUE)
              \/ (InitReadToken /\ platform = "web")]_vars

\* The permission was refused: the Alert is up over the Retry screen.
C13_Witness ==
    /\ platform = "mobile"
    /\ screen = "radar"
    /\ "Location permission is required to use this app" \in alerts
    /\ location = Nil
    /\ ~loading
    /\ authToken = "tok"
    /\ inits = [token |-> 0, permission |-> 0, position |-> 0]

\* C14: on the web platform with a stored token, the first part of
\* initializeScreen, in either variant of the screen, ends with location at
\* the fallback coordinate, loading false, no Alert and no permission
\* request.
C14_WebFallbackEveryVariant ==
    [][((InitReadToken \/ MapInitReadToken)
            /\ platform = "web" /\ storedToken # Null) =>
           /\ location' # Nil
           /\ location'.latitude = FallbackCoordinate.latitude
           /\ location'.longitude = FallbackCoordinate.longitude
           /\ loading' = FALSE
           /\ alerts' = alerts
           /\ inits'.permission = 0]_vars

\* C15: every protected call that is answered 401, and every one that
\* finds no stored token, takes the client to the login screen.
C15_UnauthorizedRedirects ==
    [][/\ \A i \in 1 .. MaxSearch : SearchFailed(i, "401") => screen' = "login"
       /\ \A i \in 1 .. MaxPost : MessageResponse(i, "401") => screen' = "login"
       /\ \A i \in 1 .. MaxCall :
              ( \/ \E name \in FormValues \ {""} : LoadResponse(i, "401", name)
                \/ UpdateProfileResponse(i, "401")
                \/ SavePreferencesResponse(i, "401") ) => screen' = "login"
       /\ ( /\ storedToken = Null
            /\ \/ \E page \in AuthPages : OpenPage(page)
               \/ updateProfile /\ form # ""
               \/ savePreferences
               \/ /\ sendMessage
                  /\ ~IsEmptyMessage(message, imageBase64)
                  /\ ~HasNoRecipients(users) ) => screen' = "login"]_vars

C17_SessionOnlyOnSuccess ==
    [][/\ \A kind \in {"login", "verify"} :
              (handleAuth(kind) /\ form = "") =>
                  /\ storedToken' = storedToken /\ storedUser' = storedUser
                  /\ screen' = screen
                  /\ calls' = calls
                  /\ alerts' # alerts
       /\ \A i \in 1 .. MaxCall, outcome \in {"non2xx", "network"} :
              AuthResponse(i, outcome) =>
                  /\ storedToken' = storedToken /\ storedUser' = storedUser
                  /\ screen' = screen
                  /\ alerts' \cap {"Login failed", "Verification failed",
                                   "Network error. Please try again."} # {}
       /\ ( \/ storedToken' \notin {storedToken, Null}
            \/ (alerts' \ alerts) \cap {"Login successful!",
                                         "Account verified successfully!"} # {} )
              => \E i \in 1 .. MaxCall : AuthResponse(i, "ok")
       /\ (screen \in {"login", "signup", "verify"} /\ screen' = "radar") =>
              \E a \in {"Login successful!", "Account verified successfully!"} :
                  DismissAlert(a)]_vars

\* A login was refused: the error is up, nothing is stored.
C17_Witness ==
    /\ screen = "login"
    /\ "Login failed" \in alerts
    /\ storedToken = Null
    /\ storedUser = Null
    /\ ~busy
    /\ calls = << >>

\* C18 as stated: while a token is stored, no step other than a logout or
\* a 2xx answer to login or verify changes the stored token or the stored
\* profile snapshot.
C18_SessionNeverMutated ==
    [][( /\ storedToken # Null
         /\ ~ConfirmLogout
         /\ ~\E i \in 1 .. MaxCall : AuthResponse(i, "ok") ) =>
           /\ storedToken' = storedToken
           /\ storedUser' = storedUser]_vars

\* C18 as amended: the stored token is changed only by a 2xx answer to login
\* or verify and by a logout; the stored snapshot is changed only by those
\* and by an updateProfile that was answered 2xx and found a snapshot, which
\* stores the fields of the form it sent.
C18_OnlyProfileUpdateWritesSnapshot ==
    [][/\ storedToken' # storedToken =>
              \/ ConfirmLogout
              \/ \E i \in 1 .. MaxCall : AuthResponse(i, "ok")
       /\ storedUser' # storedUser =>
              \/ ConfirmLogout
              \/ \E i \in 1 .. MaxCall : AuthResponse(i, "ok")
              \/ \E i \in 1 .. MaxCall :
                     /\ UpdateProfileStore(i)
                     /\ calls[i].read # Null
                     /\ storedUser' = calls[i].body]_vars

\* The settings screen has saved another name, and the stored snapshot
\* carries it.
C18_Witness ==
    /\ screen = "settings"
    /\ storedToken = "tok"
    /\ storedUser = "Bea"
    /\ "Profile updated successfully!" \in alerts
    /\ ~busy

\* C19: every failure of signup, login, verify, send message, save profile
\* and save preferences (an input that fails validation, a missing token, a
\* non-2xx answer, a network error) ends with an error Alert on display or
\* at the login screen, and with the busy flag of the screen that started it
\* false.
C19_FailuresSurfaced ==
    [][/\ ( \/ \E kind \in {"login", "verify"} : handleAuth(kind) /\ form = ""
            \/ handleSignup /\ form = ""
            \/ updateProfile /\ form = "" ) =>
              /\ alerts' \cap {"Please enter your email",
                               "Please enter the verification code",
                               "Please fill in all fields"} # {}
              /\ busy' = FALSE
       /\ ( /\ sendMessage
            /\ IsEmptyMessage(message, imageBase64) \/ HasNoRecipients(users) ) =>
              /\ alerts' \cap {"Please enter a message or add a photo",
                               "No users found to send message to"} # {}
              /\ composeLoading' = FALSE
       /\ ( /\ storedToken = Null
            /\ \/ updateProfile /\ form # ""
               \/ savePreferences
               \/ /\ sendMessage
                  /\ ~IsEmptyMessage(message, imageBase64)
                  /\ ~HasNoRecipients(users) ) =>
              /\ screen' = "login"
              /\ busy' = FALSE /\ composeLoading' = FALSE
       /\ \A i \in 1 .. MaxCall :
              ( \/ \E outcome \in {"non2xx", "network"} : AuthResponse(i, outcome)
                \/ \E outcome \in {"exists", "non2xx", "network"} :
                       SignupResponse(i, outcome)
                \/ \E outcome \in {"401", "non2xx", "network"} :
                       UpdateProfileResponse(i, outcome)
                \/ \E outcome \in {"401", "non2xx", "network"} :
                       SavePreferencesResponse(i, outcome) ) =>
                  /\ \/ screen' = "login"
                     \/ alerts' \cap {"Login failed", "Verification failed",
                                      "Account Exists", "Signup failed",
                                      "Failed to update profile",
                                      "Failed to save preferences",
                                      "Network error. Please try again."} # {}
                  /\ ~calls[i].orphan => busy' = FALSE
       /\ \A i \in 1 .. MaxPost :
              (\E outcome \in {"401", "non2xx", "network"} :
                   MessageResponse(i, outcome)) =>
                  /\ alerts' \cap {"Failed to send message",
                                   "Network error. Please try again."} # {}
                  /\ ~posts[i].orphan => composeLoading' = FALSE]_vars

\* Saving the preferences failed: the error is up and the screen is idle.
C19_Witness ==
    /\ screen = "preferences"
    /\ "Failed to save preferences" \in alerts
    /\ ~busy
    /\ calls = << >>

\* The values between the Slider's limits that lie on its step.
RadiusRange == {v \in MinimumValue .. MaximumValue : v % Step = 0}

C21_RadialPlacementClamped ==
    \A i \in Indices(userBlips) :
        /\ userBlips[i].radius =
               Min((userBlips[i].distance_miles * SvgAvailablePixels) \div radius,
                   SvgAvailablePixels)
        /\ userBlips[i].distance_miles = 0 => userBlips[i].radius = 0
        /\ userBlips[i].radius <= SvgAvailablePixels

\* C22: a 2xx answer to a nearby-user search makes nearbyUsers the answered
\* list, whatever it held before; so when the list already is the answer to
\* the same request, as after a first refresh, the answer to a second
\* refresh leaves it as it is, with no user in it twice.
C22_RefreshIdempotent ==
    [][\A i \in 1 .. MaxSearch :
           SearchOk(i) =>
               /\ nearbyUsers' = NearbyResult(searches[i].radius_miles)
               /\ nearbyUsers = NearbyResult(searches[i].radius_miles) =>
                      nearbyUsers' = nearbyUsers
               /\ \A j, k \in Indices(nearbyUsers') :
                      nearbyUsers'[j].id = nearbyUsers'[k].id => j = k]_vars

\* A refresh is in flight for the radius and location whose answer
\* nearbyUsers already holds, both users in it.
C22_Witness ==
    /\ Len(searches) = 1
    /\ searches[1].radius_miles = radius
    /\ searches[1].latitude = location.latitude
    /\ ~updating
    /\ nearbyUsers = NearbyResult(radius)
    /\ Len(nearbyUsers) = 2

\* C23: the answer to a signup with an email that has no account is 2xx,
\* creates the account and takes the client to the verify screen with the
\* code filled in; the answer to a signup with an email that has an account
\* is "User already exists", creates nothing and leaves the client where it
\* is, the signup screen unless it has been left, with the 'Account Exists'
\* offer to log in; and no email ever has more than one account.
C23_SignupOncePerEmail ==
    /\ [][\A i \in 1 .. MaxCall :
            /\ SignupResponse(i, "ok") =>
                   /\ registered[calls[i].body] = 0
                   /\ registered' = [registered EXCEPT ![calls[i].body] = 1]
                   /\ screen' = "verify"
                   /\ form' # ""
            /\ ( /\ \E outcome \in {"ok", "exists", "non2xx"} :
                        SignupResponse(i, outcome)
                 /\ registered[calls[i].body] > 0 ) =>
                   /\ registered' = registered
                   /\ screen' = screen
                   /\ ~calls[i].orphan => screen' = "signup"
                   /\ alerts' \cap {"Account Exists", "Signup failed"} # {}
            /\ SignupResponse(i, "exists") => "Account Exists" \in alerts']_vars
    /\ [](\A e \in Emails : registered[e] <= 1)

\* A second signup with an email registered by the first has been answered:
\* the client is on the signup screen with the offer to log in.
C23_Witness ==
    /\ screen = "signup"
    /\ "Account Exists" \in alerts
    /\ registered["Bea"] = 1
    /\ form = "Bea"

\* C24: the end of a location push, with 2xx, non-2xx or a network error,
\* changes nothing of the radar's state, raises no Alert and leaves the
\* screen and the searches in flight as they are; every step that issues a
\* push issues a search with it; and a search in flight can be answered
\* whether or not a push is still in flight.
C24_PushOutcomeSilent ==
    /\ [][/\ \A outcome \in {"ok", "non2xx", "network"} :
                PushOutcome(outcome) =>
                    UNCHANGED << radarVars, alerts, screen, searches, latestOk >>
          /\ pushes' > pushes => Len(searches') = Len(searches) + 1]_vars
    /\ [](RadarMounted /\ searches # << >> =>
              /\ ENABLED SearchOk(1)
              /\ ENABLED SearchFailed(1, "network"))

\* The search of the trigger has been answered and has filled the list
\* while the push issued with it is still in flight.
C24_Witness ==
    /\ pushes > 0
    /\ searches = << >>
    /\ nearbyUsers # << >>
    /\ ~updating

\* C25: the blips are the users of nearbyUsers one to one and in order:
\* as many blips as users, and the i-th blip has the id, name and
\* distance_miles of the i-th user.
C25_BlipsMirrorNearbyUsers ==
    /\ Len(userBlips) = Len(nearbyUsers)
    /\ \A i \in Indices(userBlips) :
           /\ userBlips[i].id = nearbyUsers[i].id
           /\ userBlips[i].name = nearbyUsers[i].name
           /\ userBlips[i].distance_miles = nearbyUsers[i].distance_miles

\* The radius was lowered to 0.5 miles while the list held both users: the
\* layout was recomputed from the list as it is, and a blip is selected.
C25_Witness ==
    /\ radius = MinimumValue
    /\ Len(nearbyUsers) = 2
    /\ Len(userBlips) = 2
    /\ userBlips[2].id = "u2"
    /\ userBlips[2].selected

\* C26: selectedUser is non-null exactly when one blip, and only one, has
\* selected = true, and that blip has selectedUser's id.
C26_SelectionMatchesBlips ==
    LET marked == {i \in Indices(userBlips) : userBlips[i].selected}
    IN  /\ selectedUser # Nil <=> Cardinality(marked) = 1
        /\ \A i \in marked : selectedUser # Nil /\ userBlips[i].id = selectedUser.id

\* C27: whenever selectedUser is non-null, nearbyUsers holds a user with
\* selectedUser's id.
C27_SelectedUserIsNearby ==
    selectedUser # Nil =>
        \E i \in Indices(nearbyUsers) : nearbyUsers[i].id = selectedUser.id

\* C28: updating is true exactly while a nearby-user search is in flight.
C28_UpdatingTracksSearches ==
    updating <=> searches # << >>

\* C29: a press on a blip makes that blip selectedUser and leaves the id,
\* name, distance_miles, angle and radius of every blip, and nearbyUsers,
\* radius, location, authToken, updating and loading, as they were; no
\* search and no location push is issued and none in flight is touched.
C29_SelectionFrame ==
    [][\A i \in 1 .. Cardinality(DOMAIN BackendUsers) :
           handleUserBlipPress(i) =>
               /\ selectedUser' = userBlips[i]
               /\ Len(userBlips') = Len(userBlips)
               /\ \A k \in Indices(userBlips) :
                      /\ [userBlips'[k] EXCEPT !.selected = FALSE] =
                             [userBlips[k] EXCEPT !.selected = FALSE]
                      /\ userBlips'[k].selected = (k = i)
               /\ UNCHANGED << nearbyUsers, radius, location, authToken,
                               updating, loading, searches, pushes, inits,
                               posts, calls >>]_vars

\* The second of two blips is selected while a search is in flight, and the
\* first still has the angle it was laid out with.
C29_Witness ==
    /\ Len(userBlips) = 2
    /\ userBlips[2].selected
    /\ selectedUser # Nil /\ selectedUser.id = "u2"
    /\ userBlips[1].angle = 44
    /\ searches # << >>

====
